---------------------------- MODULE Spec2Model ----------------------------
(***************************************************************************)
(* A model of src/src/ml/cv.py: the per-frame main loop (lines 139-363),   *)
(* its rolling buffers, the blink counter, the periodic metrics block and  *)
(* the helper functions it calls.                                          *)
(*                                                                         *)
(* Units.  The code computes with floats; the model uses integers:         *)
(*   wall-clock time      ticks, TicksPerSecond ticks to the second        *)
(*   EAR                  hundredths          (0.18 is 18)                 *)
(*   probabilities        hundredths          (0.6 is 60)                  *)
(*   motion, bpm, scores  thousandths (Scale) (25.0 is 25000)              *)
(*   gaze angle           whole degrees                                    *)
(* An optional value (Python's None or a value) is a sequence of length    *)
(* 0 or 1.  A mapping label -> number is a set of <<label, number>> pairs. *)
(***************************************************************************)
EXTENDS Integers, Sequences, FiniteSets

\* ------------------------------------------------------------------ CONFIG
FRAME_WIDTH == 640
FRAME_HEIGHT == 480
BUFFER_SECONDS == 20
FPS == 20
SAMPLING_RATE == FPS
\* BREATH_FREQ_BOUNDS = (0.1, 0.6) Hz, as the fractions 1/10 and 6/10
BREATH_LOW_TENTHS == 1
BREATH_HIGH_TENTHS == 6
EYE_CONTACT_ANGLE_THRESHOLD_DEG == 15
\* 0.18, in hundredths
BLINK_EAR_THRESHOLD == 18
BLINK_MIN_FRAMES == 2
\* 1.0 px per frame
DISSOCIATION_FREEZE_MOVEMENT_THRESHOLD == 1

\* deque(maxlen=BUFFER_SECONDS * SAMPLING_RATE)
Capacity == BUFFER_SECONDS * SAMPLING_RATE

\* ------------------------------------------------------------ model bounds
\* resolution of the wall clock
TicksPerSecond == 2
\* number of frames of a burst whose inputs are chosen freely
MaxFree == 5

\* half-width, in bins, of a spectral line as the window spreads it
LobeWidth == 3

\* fixed-point resolution of motion, bpm and the scores
Scale == 10 * 10 * 10

\* ----------------------------------------------------------------- helpers
None == << >>
Some(v) == << v >>
IsNone(o) == Len(o) = 0
Get(o) == o[1]

Min(a, b) == IF a < b THEN a ELSE b
Max(a, b) == IF a > b THEN a ELSE b
Abs(a) == IF a < 0 THEN -a ELSE a

\* a faulty variant of Clip: the value is passed on unclipped
ClipIgnored(x, lo, hi) == x

\* np.clip(x, lo, hi)
Clip(x, lo, hi) == IF x < lo THEN lo ELSE IF x > hi THEN hi ELSE x

\* int(x) of Python for the rational num/den, den > 0: truncation toward zero
IntTrunc(num, den) == IF num >= 0 THEN num \div den ELSE -((-num) \div den)

\* round(): the integer nearest to num/den (den > 0, num >= 0), a tie going
\* to the even neighbour.  (On floats a value that is mathematically a tie
\* may land on either neighbour; claims are stated so that both are allowed.)
RoundHalfEven(num, den) ==
    LET fl == num \div den
        r2 == 2 * (num % den)
    IN  IF r2 < den THEN fl
        ELSE IF r2 > den THEN fl + 1
        ELSE IF fl % 2 = 0 THEN fl ELSE fl + 1

\* a deque with maxlen that drops the newest element instead (a faulty variant of Push)
PushDropNewest(buf, item) ==
    IF Len(buf) < Capacity THEN Append(buf, item) ELSE buf

\* deque(maxlen=Capacity).append(item): the oldest element leaves when full
Push(buf, item) ==
    IF Len(buf) < Capacity THEN Append(buf, item)
    ELSE Append(Tail(buf), item)

\* list(buf)[-n:] for n > 0
LastN(buf, n) ==
    IF Len(buf) <= n THEN buf ELSE SubSeq(buf, Len(buf) - n + 1, Len(buf))


RECURSIVE SumRange(_, _, _)
\* seq[lo] + ... + seq[hi], by halves
SumRange(seq, lo, hi) ==
    IF lo > hi THEN 0
    ELSE IF lo = hi THEN seq[lo]
    ELSE LET mid == (lo + hi) \div 2
         IN  SumRange(seq, lo, mid) + SumRange(seq, mid + 1, hi)

\* sum(seq) for a sequence of integers
SumSeq(seq) == SumRange(seq, 1, Len(seq))

\* the quotient a / b of two fixed-point numbers, b > 0
FixDiv(a, b) == IF a >= 0 THEN a \div b ELSE -((-a) \div b)

\* ------------------------------------------------- sample_green_channel
\* len(range(n)[a:b]) of Python for a >= 0: a negative stop counts from the end
SliceLen(a, b, n) ==
    LET stop == IF b < 0 THEN Max(b + n, 0) ELSE Min(b, n)
        start == Min(a, n)
    IN  Max(stop - start, 0)

\* the indices range(n)[a:b] of Python selects, for a >= 0
SliceIdx(a, b, n) ==
    LET stop == IF b < 0 THEN Max(b + n, 0) ELSE Min(b, n)
    IN  Min(a, n) .. (stop - 1)

\* half-size of the ROI: int(min(w, h) * 0.06)
RoiHalf(w, h) == IntTrunc(Min(w, h) * 6, 100)

\* the ROI frame[y1:y2, x1:x2] as [x1, x2, y1, y2, size]; size is roi.size
\* divided by the number of channels
Roi(w, h, x, y) ==
    LET s == RoiHalf(w, h)
        x1 == Max(0, x - s)
        y1 == Max(0, y - s)
        x2 == Min(w - 1, x + s)
        y2 == Min(h - 1, y + s)
    IN  [x1 |-> x1, x2 |-> x2, y1 |-> y1, y2 |-> y2,
         size |-> SliceLen(y1, y2, h) * SliceLen(x1, x2, w)]

\* sample_green_channel(frame, landmarks, region): landmarks is None when
\* face is FALSE; (x, y) is the anchor the region's landmarks give; the frame
\* has the green intensity `green` at every pixel, so that is the ROI's mean
sample_green_channel(w, h, face, x, y, green) ==
    IF ~face THEN None
    ELSE IF Roi(w, h, x, y).size = 0 THEN None
    ELSE Some(green)

\* --------------------------------------------- dominant_freq_from_signal
\* nperseg=min(256, len(sig))
NPerSeg(n) == Min(256, n)

\* indices k of the one-sided spectrum's bins f[k] = k * fs / nperseg
Bins(n) == 0 .. (NPerSeg(n) \div 2)

\* a faulty variant of InBand: the band's bounds are excluded
InBandOpen(k, n, fs, edge) ==
    /\ 10 * k * fs > BREATH_LOW_TENTHS * NPerSeg(n)
    /\ 10 * k * fs < BREATH_HIGH_TENTHS * NPerSeg(n)

\* mask = (f >= low) & (f <= high), with low and high in tenths of a Hz.
\* f is an array of floats, each the product of k and 1.0/(nperseg/fs): a
\* frequency that is exactly a bound of the band may come out one unit in
\* the last place beyond it (3 * (1.0/(100*0.05)) is 0.6000000000000001).
\* `edge` says whether the frequencies on a bound compare as inside.
InBand(k, n, fs, edge) ==
    /\ 10 * k * fs >= BREATH_LOW_TENTHS * NPerSeg(n)
    /\ 10 * k * fs <= BREATH_HIGH_TENTHS * NPerSeg(n)
    /\ edge \/ (/\ 10 * k * fs # BREATH_LOW_TENTHS * NPerSeg(n)
                /\ 10 * k * fs # BREATH_HIGH_TENTHS * NPerSeg(n))

BandBins(n, fs, edge) == {k \in Bins(n) : InBand(k, n, fs, edge)}

\* welch(detrend(sig)): the power of each bin.  The transform itself is
\* scipy's; the model takes the spectrum of a signal with one spectral line
\* at bin `peak`, which the window spreads over the bins less than
\* LobeWidth away (no power anywhere when peak is far from every bin).
Welch(n, peak) == [k \in Bins(n) |-> Max(LobeWidth - Abs(k - peak), 0)]

\* np.argmax(P_band) as a bin index: the first bin of maximal power
PeakBin(band, Pxx) ==
    CHOOSE k \in band :
        \A j \in band : Pxx[j] < Pxx[k] \/ (Pxx[j] = Pxx[k] /\ k <= j)

\* dominant_freq_from_signal for a signal of n samples: None, or the bin
\* index k of the returned frequency k * fs / nperseg
dominant_freq_from_signal(n, fs, peak, edge) ==
    IF n < 4 THEN None
    ELSE IF BandBins(n, fs, edge) = {} THEN None
    ELSE Some(PeakBin(BandBins(n, fs, edge), Welch(n, peak)))

\* breaths_per_min = df * 60.0 if df is not None else None, in thousandths
BreathsPerMin(df, n, fs) ==
    IF IsNone(df) THEN None
    ELSE Some((Get(df) * fs * 60 * Scale) \div NPerSeg(n))

\* ---------------------------------------------------------------- scoring
\* a faulty variant of StressRaw: the motion piece has no cap
StressRawUncapped(breaths, blink_rate, motion_mean) ==
    LET breathing ==
            IF IsNone(breaths) THEN 0
            ELSE IF Get(breaths) > 20 * Scale
                 THEN Min((Get(breaths) - 20 * Scale) * 2, 40 * Scale)
            ELSE IF Get(breaths) < 8 * Scale
                 THEN Min((8 * Scale - Get(breaths)) * 2, 10 * Scale)
            ELSE 0
        blinking ==
            IF blink_rate > 30 * Scale
            THEN Min(((blink_rate - 30 * Scale) * 8) \div 10, 15 * Scale)
            ELSE 0
        motion == motion_mean * 5
    IN  breathing + blinking + motion

\* a faulty variant of StressRaw: the blink-rate branch is an elif of the
\* breathing branches
StressRawElif(breaths, blink_rate, motion_mean) ==
    LET breathing ==
            IF IsNone(breaths) THEN 0
            ELSE IF Get(breaths) > 20 * Scale
                 THEN Min((Get(breaths) - 20 * Scale) * 2, 40 * Scale)
            ELSE IF Get(breaths) < 8 * Scale
                 THEN Min((8 * Scale - Get(breaths)) * 2, 10 * Scale)
            ELSE 0
        blinking ==
            IF breathing = 0 /\ blink_rate > 30 * Scale
            THEN Min(((blink_rate - 30 * Scale) * 8) \div 10, 15 * Scale)
            ELSE 0
        motion == Min(motion_mean * 5, 25 * Scale)
    IN  breathing + blinking + motion

\* the stress heuristic before the final clip; breaths is optional
StressRaw(breaths, blink_rate, motion_mean) ==
    LET breathing ==
            IF IsNone(breaths) THEN 0
            ELSE IF Get(breaths) > 20 * Scale
                 THEN Min((Get(breaths) - 20 * Scale) * 2, 40 * Scale)
            ELSE IF Get(breaths) < 8 * Scale
                 THEN Min((8 * Scale - Get(breaths)) * 2, 10 * Scale)
            ELSE 0
        blinking ==
            IF blink_rate > 30 * Scale
            THEN Min(((blink_rate - 30 * Scale) * 8) \div 10, 15 * Scale)
            ELSE 0
        motion == Min(motion_mean * 5, 25 * Scale)
    IN  breathing + blinking + motion

\* stress = np.clip(stress, 0.0, 100.0)
StressScore(breaths, blink_rate, motion_mean) ==
    Clip(StressRaw(breaths, blink_rate, motion_mean), 0, 100 * Scale)

\* dissociation_score; expressivity in thousandths
DissociationScore(blink_rate, motion_mean, expressivity) ==
    LET motion_score ==
            Clip(FixDiv(motion_mean, DISSOCIATION_FREEZE_MOVEMENT_THRESHOLD),
                 0, Scale)
        blink_norm == Clip(FixDiv(blink_rate, 20), 0, Scale)
        raw == FixDiv((Scale - motion_score) * 5
                        + (Scale - expressivity) * 4
                        + (Scale - blink_norm) * 1, 10)
    IN  Clip(raw, 0, Scale)

\* ---------------------------------------------------- emotion aggregation
\* e.get(k): the probability a mapping gives label k, 0 when it has none
ProbOf(e, k) ==
    IF \E p \in e : p[1] = k THEN (CHOOSE p \in e : p[1] = k)[2] ELSE 0

Labels(e) == {p[1] : p \in e}

\* the sum of label k's probabilities over the frame samples of w
SumLabel(w, k) == SumSeq([i \in DOMAIN w |-> ProbOf(w[i].emotions_full, k)])

\* agg: the per-label sums over list(frame_buffer)[-int(SAMPLING_RATE*5):]
EmotionAgg(fb) ==
    LET w == LastN(fb, SAMPLING_RATE * 5)
        labels == UNION {Labels(w[i].emotions_full) : i \in DOMAIN w}
    IN  {<<k, SumLabel(w, k)>> : k \in labels}

RECURSIVE SumValues(_)
\* sum(agg.values())
SumValues(agg) ==
    IF agg = {} THEN 0
    ELSE LET p == CHOOSE q \in agg : TRUE
         IN  p[2] + SumValues(agg \ {p})

\* a faulty variant of EmotionNorm: the division is not guarded
EmotionNormUnguarded(agg) ==
    {<<p[1], p[2], SumValues(agg)>> : p \in agg}

\* emotions_agg_norm: each label with its probability v/total as the
\* fraction <<label, v, total>>, or 0.0 = <<label, 0, 1>> when total is 0
EmotionNorm(agg) ==
    LET total == IF agg # {} THEN SumValues(agg) ELSE 0
    IN  {IF total > 0 THEN <<p[1], p[2], total>> ELSE <<p[1], 0, 1>> : p \in agg}

\* expressivity, in thousandths.  probs.size = 0 gives 0.0.  Otherwise it is
\* the entropy of the distribution over log(#labels): 0 when at most one
\* label has a positive probability (every term p * log(p + 1e-9) is then 0
\* up to 1e-7); else a value of (0, 1] the model takes from `entropy`.
Expressivity(norm, entropy) ==
    IF norm = {} THEN 0
    ELSE IF Cardinality({p \in norm : p[2] > 0}) <= 1 THEN 0
    ELSE entropy

\* -------------------------------------------------------------- the state
VARIABLES
    frame_buffer,         \* deque of frame samples (line 55)
    green_signal_buffer,  \* deque of green-channel samples (line 56)
    timestamp_buffer,     \* deque of frame times t (line 57)
    motion_buffer,        \* deque of motion magnitudes (line 58)
    blink_timestamps,     \* unbounded deque of blink times (line 59)
    prev_gray,            \* TRUE once a previous frame exists (line 129)
    blink_counter_frames, \* consecutive low-EAR frames (line 131)
    last_print,           \* wall-clock time of the last tick (line 134)
    frame_idx,            \* frames read (line 135)
    running,              \* FALSE once the loop has been left
    clock,                \* the wall clock at its last reading
    out,                  \* the snapshot of the last frame, or None
    hist,                 \* history: per frame, its inputs and what it pushed
    tick_times,           \* history: last_print at every tick
    steady,               \* environment: the input of the steady frames
    budget,               \* environment: free frames left
    probe                 \* inputs and results of the functions checked alone

vars == <<frame_buffer, green_signal_buffer, timestamp_buffer, motion_buffer,
          blink_timestamps, prev_gray, blink_counter_frames, last_print,
          frame_idx, running, clock, out, hist, tick_times, steady, budget,
          probe>>

engine == <<frame_buffer, green_signal_buffer, timestamp_buffer, motion_buffer,
            blink_timestamps, prev_gray, blink_counter_frames, last_print,
            frame_idx, running, clock, out, hist, tick_times>>

\* ------------------------------------------------------- per-frame steps
\* eye_contact of a frame (lines 195-224): FALSE without a face or when the
\* iris geometry raises; else abs(gaze_angle_deg) < threshold
EyeContact(in) ==
    /\ in.face
    /\ in.gaze_ok
    /\ Abs(in.gaze) < EYE_CONTACT_ANGLE_THRESHOLD_DEG

\* a faulty variant of BlinkStep: a run one frame short registers a blink
BlinkStepOneShort(cnt, in) ==
    IF ~in.face THEN [cnt |-> cnt, blink |-> FALSE]
    ELSE IF in.ear < BLINK_EAR_THRESHOLD THEN [cnt |-> cnt + 1, blink |-> FALSE]
    ELSE [cnt |-> 0, blink |-> cnt >= BLINK_MIN_FRAMES - 1]

\* a faulty variant of BlinkStep: the blink is registered as soon as the
\* run is long enough
BlinkStepEager(cnt, in) ==
    IF ~in.face THEN [cnt |-> cnt, blink |-> FALSE]
    ELSE IF in.ear < BLINK_EAR_THRESHOLD
         THEN [cnt |-> cnt + 1, blink |-> cnt + 1 = BLINK_MIN_FRAMES]
    ELSE [cnt |-> 0, blink |-> FALSE]

\* EAR blink detection (lines 196-235): the new blink_counter_frames and the
\* frame's blink flag.  The whole block is skipped when there is no face.
BlinkStep(cnt, in) ==
    IF ~in.face THEN [cnt |-> cnt, blink |-> FALSE]
    ELSE IF in.ear < BLINK_EAR_THRESHOLD THEN [cnt |-> cnt + 1, blink |-> FALSE]
    ELSE [cnt |-> 0, blink |-> cnt >= BLINK_MIN_FRAMES]

\* a faulty variant of GreenSample: a missing sample appends 0
GreenSampleZero(buf, green_val) ==
    IF ~IsNone(green_val) THEN Get(green_val) ELSE 0

\* the value appended to green_signal_buffer (lines 177-181)
GreenSample(buf, green_val) ==
    IF ~IsNone(green_val) THEN Get(green_val)
    ELSE IF Len(buf) > 0 THEN buf[Len(buf)] ELSE 0

\* a faulty variant of AppendGreen: nothing is appended without a sample
AppendGreenIfSampled(buf, green_val) ==
    IF IsNone(green_val) THEN buf ELSE Push(buf, Get(green_val))

\* green_signal_buffer after lines 177-181
AppendGreen(buf, green_val) == Push(buf, GreenSample(buf, green_val))

\* motion_mag (lines 185-190): 0.0 on the first frame
MotionMag(in) == IF prev_gray THEN in.flow ELSE 0

\* a faulty variant of TickDue: the sample count is compared with ==
TickDueOnlyAtWarmup(n, now, last) ==
    n = SAMPLING_RATE * 4 /\ (now - last) > 1 * TicksPerSecond

\* a faulty variant of TickDue: the warm-up is 4 samples, not 4 seconds of
\* them
TickDueFourSamples(n, now, last) ==
    n >= 4 /\ (now - last) > 1 * TicksPerSecond

\* a faulty variant of TickDue: the tick does not wait for the elapsed second
TickDueNoWait(n, now, last) == n >= SAMPLING_RATE * 4

\* a faulty variant of TickDue: an elapsed time of exactly 1.0 second fires
TickDueAtLeast(n, now, last) ==
    n >= SAMPLING_RATE * 4 /\ (now - last) >= 1 * TicksPerSecond

\* the trigger of the metrics block (line 249)
TickDue(n, now, last) ==
    n >= SAMPLING_RATE * 4 /\ (now - last) > 1 * TicksPerSecond

\* ------------------------------------------------------ the metrics block
EyeContactCount(fb) == Cardinality({i \in DOMAIN fb : fb[i].eye_contact})

\* a faulty variant of EyeContactPct: the mean is taken over the capacity
EyeContactPctOverCapacity(fb) ==
    RoundHalfEven(100 * 10 * EyeContactCount(fb), Capacity)

\* round(100 * mean(eye_contact_vals), 1), in tenths (lines 258-259, 327)
EyeContactPct(fb) ==
    IF Len(fb) = 0 THEN 0
    ELSE RoundHalfEven(100 * 10 * EyeContactCount(fb), Len(fb))

\* a faulty variant of BlinksRecent: every stored blink counts
BlinksRecentAll(blinks, now) == blinks

\* blinks_recent (line 264)
BlinksRecent(blinks, now) ==
    LET Recent(ts) == now - ts <= BUFFER_SECONDS * TicksPerSecond
    IN  SelectSeq(blinks, Recent)

\* blink_rate_per_min (line 265), in thousandths
BlinkRate(blinks, now) ==
    Len(BlinksRecent(blinks, now)) * ((60 * Scale) \div BUFFER_SECONDS)

\* motion_mean (line 268), in thousandths
MotionMean(mb) == IF Len(mb) = 0 THEN 0 ELSE FixDiv(SumSeq(mb), Len(mb))

\* the out dictionary (lines 252-334) computed from the buffers as they are
\* after the frame's appends; `now` is the clock at lines 263 and 325
Snapshot(fb, gb, mb, blinks, now, in) ==
    LET n == Len(gb)
        df == dominant_freq_from_signal(n, SAMPLING_RATE, in.peak, in.edge)
        breaths_per_min == BreathsPerMin(df, n, SAMPLING_RATE)
        blink_rate_per_min == BlinkRate(blinks, now)
        motion_mean == MotionMean(mb)
        emotions_agg_norm == EmotionNorm(EmotionAgg(fb))
        expressivity == Expressivity(emotions_agg_norm, in.entropy)
        stress == StressScore(breaths_per_min, blink_rate_per_min, motion_mean)
        dissociation_score ==
            DissociationScore(blink_rate_per_min, motion_mean, expressivity)
    IN  [timestamp |-> now,
         breaths_per_min |->
             IF IsNone(breaths_per_min) THEN None
             ELSE Some(RoundHalfEven(Get(breaths_per_min), 10)),
         eye_contact_pct |-> EyeContactPct(fb),
         blink_rate_per_min |-> RoundHalfEven(blink_rate_per_min, 10),
         motion_mean |-> motion_mean,
         stress_score_0_100 |-> RoundHalfEven(stress, 100),
         dissociation_0_1 |-> dissociation_score,
         dominant_emotion |-> in.emo.label,
         emotion_distribution |-> emotions_agg_norm,
         expressivity |-> expressivity]

\* ------------------------------------------------------------ the inputs
\* What one pass of the loop takes from its collaborators:
\*   dt       clock ticks from the previous reading to line 144
\*   lag      ticks from line 144 to the readings of lines 234 and 249
\*   slip     ticks from line 249 to the readings of lines 250, 263 and 325
\*   face     face_mesh found landmarks
\*   ear      (ear_l + ear_r) / 2, in hundredths
\*   gaze_ok  the iris geometry did not raise;  gaze: gaze_angle_deg
\*   x, y     the pixel the cheek landmark gives;  green: the pixels' green
\*   flow     mean optical-flow magnitude, in thousandths
\*   emo      emotion_label, emotion_score and emotions_full
\*   peak     the bin of the spectral line of the green signal
\*   edge     the bin frequencies on a bound of the band compare as inside
\*   entropy  the normalised entropy of a distribution that has any
Happy == {<<"happy", 60>>, <<"neutral", 40>>}
Sad == {<<"sad", 100>>}
ZeroProbs == {<<"happy", 0>>, <<"neutral", 0>>}
NoEmotions == {}

Calm ==
    [dt |-> 1, lag |-> 0, slip |-> 0,
     face |-> TRUE, ear |-> 30, gaze_ok |-> TRUE, gaze |-> 0,
     x |-> 224, y |-> 216, green |-> 120, flow |-> 500,
     emo |-> [label |-> "happy", score |-> 60, full |-> Happy],
     peak |-> 3, edge |-> TRUE, entropy |-> 900]

\* no face in the frame: no landmarks, and FER finds nothing either
NoFace ==
    [Calm EXCEPT !.face = FALSE,
                 !.emo = [label |-> "neutral", score |-> 0, full |-> NoEmotions]]

\* --------------------------------------------------------------- the loop
\* state at line 137, before the first pass of the loop
InitEngine ==
    /\ frame_buffer = << >>
    /\ green_signal_buffer = << >>
    /\ timestamp_buffer = << >>
    /\ motion_buffer = << >>
    /\ blink_timestamps = << >>
    /\ prev_gray = FALSE
    /\ blink_counter_frames = 0
    /\ last_print = 0
    /\ frame_idx = 0
    /\ running = TRUE
    /\ clock = 0
    /\ out = None
    /\ hist = << >>
    /\ tick_times = << >>

\* one pass of the loop body (lines 140-363) on the inputs `in`
OnFrame(in) ==
    LET r144 == clock + in.dt
        t == r144
        r249 == r144 + in.lag
        r250 == r249 + in.slip
        green_val == sample_green_channel(FRAME_WIDTH, FRAME_HEIGHT,
                                          in.face, in.x, in.y, in.green)
        green == GreenSample(green_signal_buffer, green_val)
        motion_mag == MotionMag(in)
        eye_contact == EyeContact(in)
        bl == BlinkStep(blink_counter_frames, in)
        sample == [t |-> t, motion |-> motion_mag,
                   eye_contact |-> eye_contact, blink |-> bl.blink,
                   emotion_label |-> in.emo.label,
                   emotion_score |-> in.emo.score,
                   emotions_full |-> in.emo.full]
        tb == Push(timestamp_buffer, t)
        gb == AppendGreen(green_signal_buffer, green_val)
        mb == Push(motion_buffer, motion_mag)
        fb == Push(frame_buffer, sample)
        blinks == IF bl.blink THEN Append(blink_timestamps, r249)
                  ELSE blink_timestamps
        tick == TickDue(Len(tb), r249, last_print)
    IN  /\ running
        /\ frame_idx' = frame_idx + 1
        /\ timestamp_buffer' = tb
        /\ green_signal_buffer' = gb
        /\ motion_buffer' = mb
        /\ prev_gray' = TRUE
        /\ blink_counter_frames' = bl.cnt
        /\ blink_timestamps' = blinks
        /\ frame_buffer' = fb
        /\ last_print' = IF tick THEN r250 ELSE last_print
        /\ out' = IF tick THEN Some(Snapshot(fb, gb, mb, blinks, r250, in))
                  ELSE None
        /\ clock' = IF tick THEN r250 ELSE r249
        /\ tick_times' = IF tick THEN Append(tick_times, r250) ELSE tick_times
        /\ hist' = Append(hist, [face |-> in.face, ear |-> in.ear,
                                 green_val |-> green_val,
                                 t |-> t, green |-> green,
                                 motion |-> motion_mag, sample |-> sample,
                                 cnt_before |-> blink_counter_frames,
                                 read249 |-> r249,
                                 elapsed |-> r249 - last_print,
                                 n_ts |-> Len(tb), tick |-> tick])
        /\ running' = running

\* cap.read() fails (line 141) or 'q' is pressed (line 362): the loop ends
EndOfStream ==
    /\ running
    /\ running' = FALSE
    /\ UNCHANGED <<frame_buffer, green_signal_buffer, timestamp_buffer,
                   motion_buffer, blink_timestamps, prev_gray,
                   blink_counter_frames, last_print, frame_idx, clock, out,
                   hist, tick_times, steady, budget, probe>>

\* a frame of the steady phase: the environment repeats its steady input
SteadyFrame(last) ==
    /\ budget = MaxFree
    /\ frame_idx < last
    /\ OnFrame(steady)
    /\ UNCHANGED <<steady, budget, probe>>

\* a frame of a burst, which starts after `starts` steady frames and lasts
\* at most MaxFree frames: the input is any of `inputs`
FreeFrame(starts, inputs) ==
    /\ budget > 0
    /\ budget < MaxFree \/ frame_idx \in starts
    /\ \E in \in inputs : OnFrame(in)
    /\ budget' = budget - 1
    /\ UNCHANGED <<steady, probe>>

\* ============================================================ blink runs
\* eyes closed on every frame
Closed == [Calm EXCEPT !.ear = 10]

\* EAR exactly at the threshold
Open == [Calm EXCEPT !.ear = BLINK_EAR_THRESHOLD]

\* the burst: no face, eyes closed, EAR at the threshold or above it
BlinkInputs == {NoFace, Closed, Open, Calm}

\* the burst: eyes closed or EAR at the threshold; the next frame comes one
\* tick or BUFFER_SECONDS later
BlinkRateInputs ==
    {[i EXCEPT !.dt = d] :
        i \in {Closed, Open}, d \in {1, BUFFER_SECONDS * TicksPerSecond}}

InitBlink ==
    /\ InitEngine
    /\ steady \in {Calm, Closed}
    /\ budget = MaxFree
    /\ probe = None

\* bursts from the first frame on, or after BLINK_MIN_FRAMES steady frames
NextBlink ==
    \/ SteadyFrame(BLINK_MIN_FRAMES)
    \/ FreeFrame({0, BLINK_MIN_FRAMES}, BlinkInputs)
    \/ EndOfStream

SpecBlink == InitBlink /\ [][NextBlink]_vars

\* the burst starts on the first frame that can tick
WarmFrames == SAMPLING_RATE * 4 - 1

NextBlinkRate ==
    \/ SteadyFrame(WarmFrames)
    \/ FreeFrame({WarmFrames}, BlinkRateInputs)
    \/ EndOfStream

SpecBlinkRate == InitBlink /\ [][NextBlinkRate]_vars

\* frame i had a face with EAR below the threshold
LowEar(i) == hist[i].face /\ hist[i].ear < BLINK_EAR_THRESHOLD
\* frame i had a face with EAR at or above the threshold
HighEar(i) == hist[i].face /\ hist[i].ear >= BLINK_EAR_THRESHOLD
\* frames i .. i+n-1 all had low EAR, and frame i+n had high EAR
LowRunThenHigh(i, n) ==
    /\ i + n <= Len(hist)
    /\ \A j \in i .. (i + n - 1) : LowEar(j)
    /\ HighEar(i + n)
\* blink_counter_frames after frame i
CounterAfter(i) ==
    IF i = Len(hist) THEN blink_counter_frames ELSE hist[i + 1].cnt_before
BlinkFrames == {i \in DOMAIN hist : hist[i].sample.blink}

\* C2: from a run counter of 0, BLINK_MIN_FRAMES low-EAR frames and then a
\* high-EAR frame emit one blink event, on the high-EAR frame; one low-EAR
\* frame fewer and then a high-EAR frame emit none.  Every emitted blink is
\* one entry of blink_timestamps.
C2_ExactRunEmitsOnce ==
    /\ Len(blink_timestamps) = Cardinality(BlinkFrames)
    /\ \A i \in DOMAIN hist :
         hist[i].cnt_before = 0 =>
           /\ LowRunThenHigh(i, BLINK_MIN_FRAMES) =>
                BlinkFrames \cap (i .. (i + BLINK_MIN_FRAMES))
                    = {i + BLINK_MIN_FRAMES}
           /\ LowRunThenHigh(i, BLINK_MIN_FRAMES - 1) =>
                BlinkFrames \cap (i .. (i + BLINK_MIN_FRAMES - 1)) = {}

C2_Witness ==
    \E i, j \in DOMAIN hist :
        /\ hist[i].cnt_before = 0
        /\ LowRunThenHigh(i, BLINK_MIN_FRAMES)
        /\ hist[i + BLINK_MIN_FRAMES].sample.blink
        /\ hist[j].cnt_before = 0
        /\ LowRunThenHigh(j, BLINK_MIN_FRAMES - 1)
        /\ Len(blink_timestamps) = 1

\* C3 (as claimed): a frame without a face resets the run counter to 0 and
\* emits no blink
C3_NoFaceResetsRun ==
    \A i \in DOMAIN hist :
        ~hist[i].face => CounterAfter(i) = 0 /\ ~hist[i].sample.blink

\* C8: the blink rate of a snapshot is 60 / BUFFER_SECONDS (in hundredths)
\* times the number of blinks emitted so far whose age at the tick is at most
\* BUFFER_SECONDS
C8_BlinkRateCountsRecent ==
    ~IsNone(out) =>
        Get(out).blink_rate_per_min =
            ((60 * 100) \div BUFFER_SECONDS)
            * Cardinality({i \in BlinkFrames :
                  last_print - hist[i].read249
                      <= BUFFER_SECONDS * TicksPerSecond})

C8_Witness ==
    /\ ~IsNone(out)
    /\ \E i \in BlinkFrames :
         last_print - hist[i].read249 = BUFFER_SECONDS * TicksPerSecond
    /\ \E i \in BlinkFrames :
         last_print - hist[i].read249 > BUFFER_SECONDS * TicksPerSecond
    /\ Get(out).blink_rate_per_min > 0

\* ============================================================= the tick
\* the clock stands still during the steady frames
Still == [Calm EXCEPT !.dt = 0]

\* the burst: the next frame comes at once, exactly 1.0 second later or one
\* tick more than that; the clock may move between lines 249 and 250
TickInputs ==
    {[Calm EXCEPT !.dt = d, !.slip = sl] :
        d \in {0, 1 * TicksPerSecond, 1 * TicksPerSecond + 1},
        sl \in {0, 1}}

InitTick ==
    /\ InitEngine
    /\ steady \in {Calm, Still}
    /\ budget = MaxFree
    /\ probe = None

\* the burst starts on the last frame that cannot tick yet
NextTick ==
    \/ SteadyFrame(WarmFrames - 1)
    \/ FreeFrame({WarmFrames - 1}, TickInputs)
    \/ EndOfStream

SpecTick == InitTick /\ [][NextTick]_vars

TickFrames == {i \in DOMAIN hist : hist[i].tick}

\* C4: a frame produces a snapshot only with at least 4 x SAMPLING_RATE
\* timestamps buffered; a frame produces at most one snapshot; two
\* consecutive ticks are at least 1.0 second apart
C4_TickNotEarlyNotOften ==
    /\ \A i \in TickFrames : hist[i].n_ts >= 4 * SAMPLING_RATE
    /\ ~IsNone(out) => Len(timestamp_buffer) >= 4 * SAMPLING_RATE
    /\ Len(tick_times) = Cardinality(TickFrames)
    /\ IsNone(out) <=> (frame_idx = 0 \/ ~hist[Len(hist)].tick)
    /\ \A k \in 2 .. Len(tick_times) :
         tick_times[k] - tick_times[k - 1] >= 1 * TicksPerSecond

C4_Witness ==
    /\ \E i \in DOMAIN hist :
         /\ hist[i].n_ts < 4 * SAMPLING_RATE
         /\ hist[i].elapsed > 1 * TicksPerSecond
    /\ \E k \in 2 .. Len(tick_times) :
         tick_times[k] - tick_times[k - 1] = 1 * TicksPerSecond + 1
    /\ ~IsNone(out)

\* C5 (as claimed): a frame with at least 4 x SAMPLING_RATE timestamps and at
\* least 1.0 second elapsed since the previous tick fires
C5_FiresAtOneSecond ==
    \A i \in DOMAIN hist :
        (hist[i].n_ts >= 4 * SAMPLING_RATE
            /\ hist[i].elapsed >= 1 * TicksPerSecond) => hist[i].tick

\* C5 (amended): a frame fires exactly when it has at least 4 x SAMPLING_RATE
\* timestamps and more than 1.0 second has elapsed since the previous tick
C5_FiresAfterOneSecond ==
    \A i \in DOMAIN hist :
        hist[i].tick <=> (hist[i].n_ts >= 4 * SAMPLING_RATE
                            /\ hist[i].elapsed > 1 * TicksPerSecond)

C5_Witness ==
    /\ \E i \in DOMAIN hist :
         /\ hist[i].n_ts >= 4 * SAMPLING_RATE
         /\ hist[i].elapsed = 1 * TicksPerSecond
         /\ ~hist[i].tick
    /\ \E i \in DOMAIN hist :
         /\ hist[i].elapsed = 1 * TicksPerSecond + 1
         /\ hist[i].tick

\* ========================================================= the windows
\* the burst: no face; a face looking at the camera; a face looking away
\* whose cheek landmark lies right of the image (an empty ROI)
WindowInputs ==
    {NoFace,
     [Calm EXCEPT !.green = 130, !.flow = 0],
     [Calm EXCEPT !.gaze = EYE_CONTACT_ANGLE_THRESHOLD_DEG, !.x = 700,
                  !.flow = 2000]}

InitWindow ==
    /\ InitEngine
    /\ steady \in {Calm, NoFace}
    /\ budget = MaxFree
    /\ probe = None

\* bursts from the first frame on, on the first frame that can tick, or on
\* the frame that fills the windows
NextWindow ==
    \/ SteadyFrame(Capacity - 1)
    \/ FreeFrame({0, WarmFrames, Capacity - 1}, WindowInputs)
    \/ EndOfStream

SpecWindow == InitWindow /\ [][NextWindow]_vars

\* everything pushed so far into the four windows, oldest first
PushedT == [i \in DOMAIN hist |-> hist[i].t]
PushedGreen == [i \in DOMAIN hist |-> hist[i].green]
PushedMotion == [i \in DOMAIN hist |-> hist[i].motion]
PushedSample == [i \in DOMAIN hist |-> hist[i].sample]

\* C1: no window is ever longer than the capacity, and each holds, oldest
\* first, the last Capacity items pushed into it (all of them up to then)
C1_WindowsAreFifo ==
    /\ Len(frame_buffer) <= Capacity
    /\ Len(green_signal_buffer) <= Capacity
    /\ Len(timestamp_buffer) <= Capacity
    /\ Len(motion_buffer) <= Capacity
    /\ timestamp_buffer = LastN(PushedT, Capacity)
    /\ green_signal_buffer = LastN(PushedGreen, Capacity)
    /\ motion_buffer = LastN(PushedMotion, Capacity)
    /\ frame_buffer = LastN(PushedSample, Capacity)

C1_Witness ==
    /\ frame_idx > Capacity + 1
    /\ Len(timestamp_buffer) = Capacity
    /\ timestamp_buffer[1] = hist[frame_idx - Capacity + 1].t
    /\ timestamp_buffer[1] # hist[1].t
    /\ frame_buffer[Capacity] # frame_buffer[Capacity - 1]

\* C6: every frame appends one value to the green buffer: the sampler's
\* value when it returns one, else the buffer's newest value before the
\* append, or 0 when the buffer was empty
C6_GreenCarriesForward ==
    /\ Len(green_signal_buffer) = Min(frame_idx, Capacity)
    /\ frame_idx >= 1 =>
         LET n == Len(green_signal_buffer)
             v == hist[frame_idx].green_val
         IN  green_signal_buffer[n] =
                 IF ~IsNone(v) THEN Get(v)
                 ELSE IF frame_idx = 1 THEN 0
                 ELSE green_signal_buffer[n - 1]

C6_Witness ==
    /\ frame_idx >= 3
    /\ IsNone(hist[1].green_val)
    /\ green_signal_buffer[1] = 0
    /\ IsNone(hist[frame_idx].green_val)
    /\ ~IsNone(hist[frame_idx - 1].green_val)
    /\ green_signal_buffer[frame_idx] = Get(hist[frame_idx - 1].green_val)
    /\ green_signal_buffer[frame_idx] # 0

\* the frames that are in the frame window, and those with eye contact
WindowFrames == (Len(hist) - Min(Len(hist), Capacity) + 1) .. Len(hist)
EyeContactFrames == {i \in WindowFrames : hist[i].sample.eye_contact}

\* C7 (as claimed): the snapshot's eye_contact_pct (in tenths) is exactly
\* 100 x (frames of the window with eye contact) / (window length)
C7_PctIsExactRatio ==
    ~IsNone(out) =>
        Get(out).eye_contact_pct * Cardinality(WindowFrames)
            = 100 * 10 * Cardinality(EyeContactFrames)

\* C7 (amended): the snapshot's eye_contact_pct is that ratio rounded to one
\* decimal: it is a whole number of tenths within half a tenth of the ratio,
\* lies in [0, 100], is 100.0 for an all-true and 0.0 for an all-false
\* window; the window is the full frame window; and a frame without a face
\* is in it with eye_contact and blink false
C7_PctIsRoundedRatio ==
    /\ \A i \in DOMAIN hist :
         ~hist[i].face => ~hist[i].sample.eye_contact /\ ~hist[i].sample.blink
    /\ ~IsNone(out) =>
         LET n == Cardinality(WindowFrames)
             k == Cardinality(EyeContactFrames)
             pct == Get(out).eye_contact_pct
         IN  /\ n = Len(frame_buffer)
             /\ 2 * Abs(pct * n - 100 * 10 * k) <= n
             /\ pct >= 0 /\ pct <= 100 * 10
             /\ k = n => pct = 100 * 10
             /\ k = 0 => pct = 0

C7_Witness ==
    /\ ~IsNone(out)
    /\ Len(frame_buffer) = Capacity
    /\ \E i \in WindowFrames : ~hist[i].face
    /\ Cardinality(EyeContactFrames) > 0
    /\ Get(out).eye_contact_pct * Cardinality(WindowFrames)
           # 100 * 10 * Cardinality(EyeContactFrames)

\* ================================================= emotion aggregation
\* FER finds labels and gives every one the probability 0
ZeroFace ==
    [Calm EXCEPT !.emo = [label |-> "happy", score |-> 0, full |-> ZeroProbs]]

\* the burst: each frame comes more than a second after the last, so each
\* ticks; its emotions are Happy, Sad, all zero, or none
EmotionInputs ==
    {[Calm EXCEPT !.dt = 1 * TicksPerSecond + 1, !.emo = e] :
        e \in {[label |-> "happy", score |-> 60, full |-> Happy],
               [label |-> "sad", score |-> 100, full |-> Sad],
               [label |-> "happy", score |-> 0, full |-> ZeroProbs],
               [label |-> "neutral", score |-> 0, full |-> NoEmotions]}}

InitEmotion ==
    /\ InitEngine
    /\ steady \in {Calm, NoFace, ZeroFace}
    /\ budget = MaxFree
    /\ probe = None

\* the burst starts on the first frame that can tick, or when the frame
\* window is longer than the emotion sub-window; it is one frame shorter
\* than the other bursts, each of its frames being a tick
NextEmotion ==
    \/ SteadyFrame(SAMPLING_RATE * 5 + 1)
    \/ budget > 1 /\ FreeFrame({WarmFrames, SAMPLING_RATE * 5 + 1}, EmotionInputs)
    \/ EndOfStream

SpecEmotion == InitEmotion /\ [][NextEmotion]_vars

\* the frames of the emotion sub-window, and what they hold
EmoFrames == (Len(hist) - Min(Len(hist), SAMPLING_RATE * 5) + 1) .. Len(hist)
EmoLabels == UNION {Labels(hist[i].sample.emotions_full) : i \in EmoFrames}
EmoSum(k) ==
    LET first == Len(hist) - Min(Len(hist), SAMPLING_RATE * 5)
    IN  SumSeq([j \in 1 .. (Len(hist) - first) |->
                   ProbOf(hist[first + j].sample.emotions_full, k)])
EmoTotal == SumValues({<<k, EmoSum(k)>> : k \in EmoLabels})
\* the sum of a distribution's values is 1
SumsToOne(d) ==
    \E total \in {p[3] : p \in d} :
        /\ \A p \in d : p[3] = total
        /\ SumValues({<<p[1], p[2]>> : p \in d}) = total

\* C10 (as claimed): the aggregated distribution of a snapshot sums to 1 or
\* is the empty mapping, and it is the empty mapping when the total is 0
C10_SumsToOneOrEmpty ==
    ~IsNone(out) =>
        LET d == Get(out).emotion_distribution
        IN  /\ d = {} \/ SumsToOne(d)
            /\ EmoTotal = 0 => d = {}

\* C10 (amended): the aggregated distribution has one entry for every label
\* of the sub-window and never divides by zero; with a positive total each
\* entry is the label's sum over the total, so the values sum to 1; with a
\* total of 0 every entry is 0 (the mapping is empty only when the
\* sub-window has no label) and expressivity is 0
C10_SumsToOneOrZeros ==
    ~IsNone(out) =>
        LET d == Get(out).emotion_distribution
            sums == [k \in EmoLabels |-> EmoSum(k)]
            total == SumValues({<<k, sums[k]>> : k \in EmoLabels})
        IN  /\ {p[1] : p \in d} = EmoLabels
            /\ Cardinality(d) = Cardinality(EmoLabels)
            /\ \A p \in d : p[3] > 0
            /\ total > 0 =>
                 /\ \A p \in d : p[2] = sums[p[1]] /\ p[3] = total
                 /\ SumsToOne(d)
            /\ total = 0 =>
                 /\ \A p \in d : p[2] = 0
                 /\ Get(out).expressivity = 0
            /\ d = {} <=> EmoLabels = {}

C10_Witness ==
    /\ ~IsNone(out)
    /\ EmoTotal = 0
    /\ Get(out).emotion_distribution # {}
    /\ Get(out).expressivity = 0
    /\ Len(frame_buffer) > SAMPLING_RATE * 5
    /\ \E i \in EmoFrames : hist[i].sample.emotions_full = NoEmotions

\* ============================================================ the scores
\* the inputs of the scoring step, in thousandths: no breathing rate or
\* 0 .. 200 bpm; blink rates 0 .. 600 per minute; motion 0 .. 1000
ScoreInputs ==
    [breaths : {None} \cup {Some(b * Scale) : b \in {0, 7, 8, 20, 21, 36, 40, 200}},
     blink_rate : {r * Scale : r \in {0, 3, 30, 33, 48, 60, 600}},
     motion_mean : {0, 500, Scale, 5 * Scale, 1000 * Scale},
     expressivity : {0, Scale \div 2, Scale}]

InitScore ==
    /\ InitEngine
    /\ steady = Calm
    /\ budget = 0
    /\ probe \in {Some([input |-> i]) : i \in ScoreInputs}

\* lines 288-321 on the probe's inputs
Score ==
    /\ ~IsNone(probe)
    /\ DOMAIN Get(probe) = {"input"}
    /\ LET i == Get(probe).input
       IN  probe' = Some([input |-> i,
                          stress_raw |-> StressRaw(i.breaths, i.blink_rate,
                                                   i.motion_mean),
                          stress |-> StressScore(i.breaths, i.blink_rate,
                                                 i.motion_mean),
                          dissociation_score |->
                              DissociationScore(i.blink_rate, i.motion_mean,
                                                i.expressivity)])
    /\ UNCHANGED <<engine, steady, budget>>

NextScore == Score

SpecScore == InitScore /\ [][NextScore]_vars

Scored == ~IsNone(probe) /\ "stress" \in DOMAIN Get(probe)

\* C9: whatever the inputs, the stress score lies in [0, 100] and the
\* dissociation score in [0, 1]
C9_ScoresAreClipped ==
    Scored =>
        /\ Get(probe).stress >= 0
        /\ Get(probe).stress <= 100 * Scale
        /\ Get(probe).dissociation_score >= 0
        /\ Get(probe).dissociation_score <= Scale

C9_Witness ==
    /\ Scored
    /\ Get(probe).input.breaths = Some(200 * Scale)
    /\ Get(probe).input.motion_mean = 1000 * Scale
    /\ Get(probe).dissociation_score = 0
    /\ Get(probe).stress > 0

\* ===================================== emotion aggregation, on floats
\* Lines 270-279 once more, this time on binary floating-point numbers
\* rather than exact fractions, for what depends on the rounding of every
\* `+` and `/`.  A float is a whole number of units of 2^-FracBits that has
\* at most MantissaBits significant bits; results are rounded to the nearest
\* float, a tie going to the even mantissa.  (CPython's float has 53
\* significant bits; 53 and 9 round the binary expansions of 0.6 and 0.4
\* alike, both being 1 modulo the expansions' period of 4.)
MantissaBits == 9
FracBits == 16

RECURSIVE BitLen(_)
\* the number of significant bits of x >= 0
BitLen(x) == IF x = 0 THEN 0 ELSE 1 + BitLen(x \div 2)

\* the float nearest to num/den units (num >= 0, den > 0)
FlRound(num, den) ==
    LET s == BitLen(num \div den) - MantissaBits
    IN  IF s <= 0 THEN RoundHalfEven(num, den)
        ELSE RoundHalfEven(num, den * 2^s) * 2^s

\* the float of the decimal literal num/den, as 0.6 is of 6/10
FloatOf(num, den) == FlRound(num * 2^FracBits, den)

\* a + b on floats
FlAdd(a, b) == FlRound(a + b, 1)

\* a / b on floats, 0 <= a <= b, b > 0: each is its mantissa times a power
\* of two, and the quotient of the mantissas is rounded
FlDiv(a, b) ==
    LET sa == Max(BitLen(a) - MantissaBits, 0)
        sb == Max(BitLen(b) - MantissaBits, 0)
        ma == a \div 2^sa
        mb == b \div 2^sb
    IN  FlRound(ma * 2^(FracBits + sa - sb), mb)

\* a dict is the sequence of its <<key, value>> items in insertion order
HasKey(e, k) == \E i \in DOMAIN e : e[i][1] = k

RECURSIVE AggItems(_, _, _)
\* for k, v in e.items(): agg[k] = agg.get(k, 0.0) + v, from item i on
AggItems(agg, e, i) ==
    IF i > Len(e) THEN agg
    ELSE LET k == e[i][1]
             v == e[i][2]
             next == IF HasKey(agg, k)
                     THEN [j \in DOMAIN agg |->
                              IF agg[j][1] = k
                              THEN <<k, FlAdd(agg[j][2], v)>> ELSE agg[j]]
                     ELSE Append(agg, <<k, FlAdd(0, v)>>)
         IN  AggItems(next, e, i + 1)

RECURSIVE AggFrames(_, _, _)
\* agg after the frames i .. Len(w) of the sub-window w (lines 272-276);
\* each frame's agg is computed before the next frame is taken
AggFrames(agg, w, i) ==
    IF i > Len(w) THEN agg
    ELSE LET next == AggItems(agg, w[i], 1)
         IN  IF Len(next) >= 0 THEN AggFrames(next, w, i + 1) ELSE next

\* agg of the sub-window w, a sequence of emotions_full dicts
EmotionAggFl(w) == AggFrames(<< >>, w, 1)

RECURSIVE SumFl(_, _)
\* sum(agg.values()): the first i values added left to right from 0
SumFl(agg, i) == IF i = 0 THEN 0 ELSE FlAdd(SumFl(agg, i - 1), agg[i][2])

\* a faulty variant of EmotionNormFl: the sums are not divided by the total
EmotionNormFlUndivided(agg) == agg

\* emotions_agg_norm (lines 278-279) on floats
EmotionNormFl(agg) ==
    LET total == IF Len(agg) > 0 THEN SumFl(agg, Len(agg)) ELSE 0
    IN  [j \in DOMAIN agg |->
            <<agg[j][1], IF total > 0 THEN FlDiv(agg[j][2], total) ELSE 0>>]

\* distributions whose floats sum to 1.0, and no distribution at all
AggInputs ==
    {<< >>,
     <<<<"happy", FloatOf(6, 10)>>, <<"neutral", FloatOf(4, 10)>>>>,
     <<<<"sad", FloatOf(1, 1)>>>>,
     <<<<"angry", FloatOf(1, 10)>>, <<"happy", FloatOf(2, 10)>>,
       <<"neutral", FloatOf(7, 10)>>>>,
     <<<<"happy", FloatOf(1, 2)>>, <<"sad", FloatOf(1, 2)>>,
       <<"fear", FloatOf(0, 1)>>>>,
     <<<<"happy", FloatOf(9, 10)>>, <<"sad", FloatOf(1, 10)>>>>}

\* a sub-window of n frame samples (at most int(SAMPLING_RATE*5)) that all
\* carry the distribution d
InitAgg ==
    /\ InitEngine
    /\ steady = Calm
    /\ budget = 0
    /\ probe \in {Some([d |-> d, n |-> n]) :
                     d \in AggInputs, n \in 1 .. (SAMPLING_RATE * 5)}

\* lines 270-279 on the probe's sub-window
Aggregate ==
    /\ ~IsNone(probe)
    /\ DOMAIN Get(probe) = {"d", "n"}
    /\ LET d == Get(probe).d
           n == Get(probe).n
           w == [i \in 1 .. n |-> d]
       IN  probe' = Some([d |-> d, n |-> n,
                          emotions_agg_norm |->
                              EmotionNormFl(EmotionAggFl(w))])
    /\ UNCHANGED <<engine, steady, budget>>

NextAgg == Aggregate

SpecAgg == InitAgg /\ [][NextAgg]_vars

Aggregated == ~IsNone(probe) /\ "emotions_agg_norm" \in DOMAIN Get(probe)

\* C11 (as claimed): n samples that all carry d aggregate to exactly d, and
\* a sub-window without any distribution aggregates to the empty mapping
C11_RepetitionIsExact ==
    Aggregated => Get(probe).emotions_agg_norm = Get(probe).d

\* C11 (amended): n samples that all carry d aggregate to a mapping with d's
\* labels; it is exactly d for n = 1 and n = 2; for larger n each value is
\* d's up to the rounding of the additions and the division, a relative
\* error of at most (2n + number of labels) x 2^-MantissaBits, and a value
\* that is 0 in d is 0; a sub-window without any distribution aggregates to
\* the empty mapping
C11_RepetitionUpToRounding ==
    Aggregated =>
        LET d == Get(probe).d
            n == Get(probe).n
            r == Get(probe).emotions_agg_norm
        IN  /\ Len(r) = Len(d)
            /\ \A j \in DOMAIN d : r[j][1] = d[j][1]
            /\ n <= 2 => r = d
            /\ \A j \in DOMAIN d :
                 Abs(r[j][2] - d[j][2]) * 2^MantissaBits
                     <= (2 * n + Len(d)) * d[j][2]
            /\ d = << >> => r = << >>

C11_Witness ==
    /\ Aggregated
    /\ Get(probe).n = 3
    /\ Get(probe).d = <<<<"happy", FloatOf(6, 10)>>,
                        <<"neutral", FloatOf(4, 10)>>>>
    /\ Get(probe).emotions_agg_norm # Get(probe).d
    /\ Get(probe).emotions_agg_norm[1] = Get(probe).d[1]

\* ================================================ the breathing estimator
\* signals of 0 .. Capacity samples, as green_signal_buffer holds, sampled
\* at 1 Hz, 2 Hz or SAMPLING_RATE, with their spectral line at a low, a
\* middle or a high bin or at none
BreathInputs ==
    [n : 0 .. Capacity,
     fs : {1, 2, SAMPLING_RATE},
     peak : {0, 1, 4, 9, 60, 128, 300},
     edge : BOOLEAN]

InitBreath ==
    /\ InitEngine
    /\ steady = Calm
    /\ budget = 0
    /\ probe \in {Some([input |-> i]) : i \in BreathInputs}

\* lines 254-255 on the probe's signal
Estimate ==
    /\ ~IsNone(probe)
    /\ DOMAIN Get(probe) = {"input"}
    /\ LET i == Get(probe).input
           df == dominant_freq_from_signal(i.n, i.fs, i.peak, i.edge)
       IN  probe' = Some([input |-> i, df |-> df,
                          breaths_per_min |-> BreathsPerMin(df, i.n, i.fs)])
    /\ UNCHANGED <<engine, steady, budget>>

NextBreath == Estimate

SpecBreath == InitBreath /\ [][NextBreath]_vars

Estimated == ~IsNone(probe) /\ "df" \in DOMAIN Get(probe)

\* C12: the estimator returns None exactly when the series has fewer than 4
\* samples or no bin k * fs / min(256, n), k = 0 .. min(256, n) div 2, lies
\* in [0.1, 0.6] Hz (as the bins' computed frequencies compare with the
\* bounds); otherwise it returns such a bin whose power is at least that of
\* every bin in the band, and breaths_per_min, 60 times its frequency, lies
\* in [6, 36]
C12_EstimatorContract ==
    Estimated =>
        LET n == Get(probe).input.n
            fs == Get(probe).input.fs
            df == Get(probe).df
            bpm == Get(probe).breaths_per_min
            seg == IF n < 256 THEN n ELSE 256
            \* bin k's frequency k * fs / seg lies in [1/10, 6/10]
            Within(k) == seg <= 10 * k * fs /\ 10 * k * fs <= 6 * seg
            OnBound(k) == seg = 10 * k * fs \/ 10 * k * fs = 6 * seg
            band == {k \in 0 .. (seg \div 2) :
                        Within(k) /\ (Get(probe).input.edge \/ ~OnBound(k))}
            Pxx == Welch(n, Get(probe).input.peak)
        IN  /\ IsNone(df) <=> (n < 4 \/ band = {})
            /\ IsNone(bpm) <=> IsNone(df)
            /\ ~IsNone(df) =>
                 /\ Get(df) \in band
                 /\ \A k \in band : Pxx[Get(df)] >= Pxx[k]
                 /\ Get(bpm) >= 6 * Scale /\ Get(bpm) <= 36 * Scale
                 /\ Get(bpm) = (60 * Scale * Get(df) * fs) \div seg

C12_Witness ==
    /\ Estimated
    /\ Get(probe).input.n = 200
    /\ Get(probe).input.fs = SAMPLING_RATE
    /\ Get(probe).input.peak = 0
    /\ Get(probe).input.edge
    /\ Get(probe).breaths_per_min = Some(6 * Scale)

\* C13: before the clip the stress score is the sum of a breathing piece, a
\* blink piece and a motion piece, each depending on its own input only:
\* breathing min((bpm - 20) x 2, 40) above 20, min((8 - bpm) x 2, 10) below
\* 8, and 0 in [8, 20] or without a rate; blink min((rate - 30) x 0.8, 15)
\* above 30 and 0 otherwise; motion min(motion_mean x 5, 25).  No piece
\* decreases when its input moves away from the neutral range.  (A piece
\* is the score of its input with no breathing rate, no blinks and no
\* motion for the other two.)
C13_StressIsSumOfPieces ==
    Scored =>
        LET i == Get(probe).input
            raw == Get(probe).stress_raw
            b == StressRaw(i.breaths, 0, 0)
            k == StressRaw(None, i.blink_rate, 0)
            m == StressRaw(None, 0, i.motion_mean)
            bpm == Get(i.breaths)
        IN  /\ raw = b + k + m
            /\ IsNone(i.breaths) => b = 0
            /\ ~IsNone(i.breaths) =>
                 /\ bpm > 20 * Scale =>
                      b = Min(2 * (bpm - 20 * Scale), 40 * Scale)
                 /\ bpm < 8 * Scale =>
                      b = Min(2 * (8 * Scale - bpm), 10 * Scale)
                 /\ (bpm >= 8 * Scale /\ bpm <= 20 * Scale) => b = 0
            /\ i.blink_rate > 30 * Scale =>
                 /\ 10 * k <= 8 * (i.blink_rate - 30 * Scale)
                 /\ 10 * k = 8 * (i.blink_rate - 30 * Scale) \/ k = 15 * Scale
                 /\ k <= 15 * Scale
            /\ i.blink_rate <= 30 * Scale => k = 0
            /\ m = Min(5 * i.motion_mean, 25 * Scale)
            /\ \A j \in ScoreInputs :
                 /\ (~IsNone(i.breaths) /\ ~IsNone(j.breaths)
                       /\ (\/ Get(j.breaths) >= bpm /\ bpm > 20 * Scale
                           \/ Get(j.breaths) <= bpm /\ bpm < 8 * Scale))
                      => StressRaw(j.breaths, 0, 0) >= b
                 /\ j.blink_rate >= i.blink_rate
                      => StressRaw(None, j.blink_rate, 0) >= k
                 /\ j.motion_mean >= i.motion_mean
                      => StressRaw(None, 0, j.motion_mean) >= m

C13_Witness ==
    /\ Scored
    /\ Get(probe).input.breaths = Some(36 * Scale)
    /\ Get(probe).input.blink_rate = 33 * Scale
    /\ Get(probe).input.motion_mean = Scale \div 2
    /\ Get(probe).stress_raw = 32 * Scale + (24 * Scale) \div 10
                                   + (5 * Scale) \div 2

\* ===================================================== blink runs, again
\* every frame so far had a face
AllFaces == \A i \in DOMAIN hist : hist[i].face
\* the number of low-EAR frames that end with frame i (0 when frame i is
\* not one)
RunEndingAt(i) ==
    IF i = 0 \/ ~LowEar(i) THEN 0
    ELSE LET starts == {j \in 1 .. i : \A l \in j .. i : LowEar(l)}
         IN  Cardinality(starts)
\* the frames that end a maximal low-EAR run of BLINK_MIN_FRAMES or more:
\* the first frame with EAR at or above the threshold after such a run
RunEnds ==
    {i \in DOMAIN hist : HighEar(i) /\ RunEndingAt(i - 1) >= BLINK_MIN_FRAMES}

\* C14: while every frame has a face, the frames that emit a blink are the
\* frames that end a maximal low-EAR run of BLINK_MIN_FRAMES or more, each
\* emits one event, no low-EAR frame emits, the run counter is the length
\* of the run still open (0 after a frame with EAR at or above the
\* threshold), and leaving the loop emits nothing for an open run
C14_OneBlinkPerRun ==
    AllFaces =>
        /\ BlinkFrames = RunEnds
        /\ Len(blink_timestamps) = Cardinality(RunEnds)
        /\ \A i \in DOMAIN hist :
             /\ LowEar(i) => ~hist[i].sample.blink
             /\ HighEar(i) => CounterAfter(i) = 0
             /\ CounterAfter(i) = RunEndingAt(i)

C14_Witness ==
    /\ AllFaces
    /\ ~running
    /\ blink_counter_frames >= BLINK_MIN_FRAMES
    /\ Len(blink_timestamps) = 1
    /\ \E i \in BlinkFrames : hist[i].cnt_before > BLINK_MIN_FRAMES

\* C15 (as claimed): after a tick every blink time still stored in
\* blink_timestamps is at most BUFFER_SECONDS old
C15_StoredBlinksAreRecent ==
    ~IsNone(out) =>
        \A j \in DOMAIN blink_timestamps :
            Get(out).timestamp - blink_timestamps[j]
                <= BUFFER_SECONDS * TicksPerSecond

\* ============================================== the green-channel sampler
\* images of the camera's size and of two small sizes; anchors inside the
\* image, on its borders and beyond each side; landmarks found or not
RoiInputs ==
    [size : {<<FRAME_WIDTH, FRAME_HEIGHT>>, <<64, 48>>, <<10, 10>>},
     x : {-700, -40, -29, -28, -3, -1, 0, 1, 28, 300, 611, 639, 640, 667,
          668, 700},
     y : {-500, -29, -28, -1, 0, 216, 451, 479, 480, 507, 508},
     face : BOOLEAN]

InitRoi ==
    /\ InitEngine
    /\ steady = Calm
    /\ budget = 0
    /\ probe \in {Some([input |-> i]) : i \in RoiInputs}

\* sample_green_channel on the probe's frame and anchor; cols and rows are
\* the pixel columns and rows of roi = frame[y1:y2, x1:x2] (none when the
\* function returns at line 87, before there is a ROI)
Sample ==
    /\ ~IsNone(probe)
    /\ DOMAIN Get(probe) = {"input"}
    /\ LET i == Get(probe).input
           w == i.size[1]
           h == i.size[2]
           r == Roi(w, h, i.x, i.y)
       IN  probe' = Some([input |-> i,
                          cols |-> IF i.face THEN SliceIdx(r.x1, r.x2, w)
                                   ELSE {},
                          rows |-> IF i.face THEN SliceIdx(r.y1, r.y2, h)
                                   ELSE {},
                          green_val |->
                              sample_green_channel(w, h, i.face, i.x, i.y,
                                                   Calm.green)])
    /\ UNCHANGED <<engine, steady, budget>>

NextRoi == Sample

SpecRoi == InitRoi /\ [][NextRoi]_vars

Sampled == ~IsNone(probe) /\ "green_val" \in DOMAIN Get(probe)

\* C16 (as claimed): whatever the image size and the anchor, the ROI lies
\* inside the image and inside the square of half-size s = int(0.06 x
\* min(w, h)) around the anchor, so it is at most 2s wide and high; the
\* sampler returns None when that region is empty or there are no
\* landmarks, and a mean otherwise
C16_RoiInsideSquare ==
    Sampled =>
        LET i == Get(probe).input
            w == i.size[1]
            h == i.size[2]
            s == (6 * (IF w < h THEN w ELSE h)) \div 100
            cols == Get(probe).cols
            rows == Get(probe).rows
            clamped == ((i.x - s) .. (i.x + s)) \cap (0 .. (w - 1))
            clampedRows == ((i.y - s) .. (i.y + s)) \cap (0 .. (h - 1))
        IN  /\ (cols # {} /\ rows # {}) =>
                 /\ cols \subseteq 0 .. (w - 1)
                 /\ rows \subseteq 0 .. (h - 1)
                 /\ cols \subseteq (i.x - s) .. (i.x + s)
                 /\ rows \subseteq (i.y - s) .. (i.y + s)
                 /\ Cardinality(cols) <= 2 * s
                 /\ Cardinality(rows) <= 2 * s
            /\ (~i.face \/ clamped = {} \/ clampedRows = {})
                 => IsNone(Get(probe).green_val)
            /\ IsNone(Get(probe).green_val) => (cols = {} \/ rows = {})

\* ================================================ the windows, aligned
\* C17: after every frame the four windows have the same length, the
\* number of frames processed or the capacity if that is smaller, and the
\* entries at one index are those of one frame: the frame's time, green
\* value, motion magnitude and frame sample
C17_WindowsAligned ==
    LET n == Min(frame_idx, Capacity)
        first == frame_idx - n
    IN  /\ Len(frame_buffer) = n
        /\ Len(green_signal_buffer) = n
        /\ Len(timestamp_buffer) = n
        /\ Len(motion_buffer) = n
        /\ \A i \in 1 .. n :
             /\ timestamp_buffer[i] = hist[first + i].t
             /\ green_signal_buffer[i] = hist[first + i].green
             /\ motion_buffer[i] = hist[first + i].motion
             /\ frame_buffer[i] = hist[first + i].sample
             /\ frame_buffer[i].t = timestamp_buffer[i]
             /\ frame_buffer[i].motion = motion_buffer[i]

C17_Witness ==
    /\ frame_idx > Capacity
    /\ Len(green_signal_buffer) = Capacity
    /\ \E i \in WindowFrames : ~hist[i].face
    /\ \E i \in WindowFrames : hist[i].face /\ IsNone(hist[i].green_val)
    /\ \E i \in WindowFrames : hist[i].sample.emotions_full = NoEmotions
    /\ \E i \in WindowFrames : ~IsNone(hist[i].green_val)
    /\ ~IsNone(out)

\* ============================================ the breathing rate at ticks
\* frames more than a second apart, so that every frame past the warm-up
\* ticks: with a face, and without one (no green sample) while the bin
\* frequencies on a bound of the band compare as outside
Slow == [Calm EXCEPT !.dt = 1 * TicksPerSecond + 1]
SlowNoFace == [NoFace EXCEPT !.dt = 1 * TicksPerSecond + 1, !.edge = FALSE]

\* the burst: as the steady frames, with the spectral line below or above
\* the band
BreathingInputs ==
    {[Slow EXCEPT !.peak = 0, !.edge = FALSE],
     [Slow EXCEPT !.peak = 100],
     SlowNoFace}

InitBreathing ==
    /\ InitEngine
    /\ steady \in {Slow, SlowNoFace}
    /\ budget = MaxFree
    /\ probe = None

\* the steady frames fill the green buffer and run past its capacity
NextBreathing ==
    \/ SteadyFrame(Capacity + 1)
    \/ FreeFrame({WarmFrames, Capacity + 1}, BreathingInputs)
    \/ EndOfStream

SpecBreathing == InitBreathing /\ [][NextBreathing]_vars

\* C18: every snapshot has a breathing rate.  At a tick the green series
\* has 4 x SAMPLING_RATE .. Capacity samples, and a series of that length
\* has a bin in [0.1, 0.6] Hz, also when the bins on the band's bounds are
\* left out; no frame with a shorter series ticks
C18_BreathsNeverNone ==
    /\ \A i \in TickFrames : hist[i].n_ts >= 4 * SAMPLING_RATE
    /\ ~IsNone(out) =>
         LET n == Len(green_signal_buffer)
             bpm == Get(out).breaths_per_min
         IN  /\ n >= 4 * SAMPLING_RATE
             /\ n <= Capacity
             /\ n >= 4
             /\ \A e \in BOOLEAN : BandBins(n, SAMPLING_RATE, e) # {}
             /\ ~IsNone(bpm)
             /\ Get(bpm) >= 6 * 100 /\ Get(bpm) <= 36 * 100

C18_Witness ==
    /\ ~IsNone(out)
    /\ frame_idx > Capacity
    /\ Len(green_signal_buffer) = Capacity
    /\ ~hist[frame_idx].face
    /\ \E i \in TickFrames : hist[i].n_ts = 4 * SAMPLING_RATE
    /\ \E i \in TickFrames : hist[i].n_ts = SAMPLING_RATE * 5
    /\ ~IsNone(Get(out).breaths_per_min)

\* ===================================================== the stress range
\* C19: for a motion mean of 0 or more the stress score before the clip
\* lies in [0, 80], so the clip leaves it as it is and the emitted score,
\* rounded to one decimal, is at most 80.0
C19_StressAtMostEighty ==
    (Scored /\ Get(probe).input.motion_mean >= 0) =>
        /\ Get(probe).stress_raw >= 0
        /\ Get(probe).stress_raw <= 80 * Scale
        /\ Get(probe).stress = Get(probe).stress_raw
        /\ RoundHalfEven(Get(probe).stress, 100) <= 80 * 10

C19_Witness ==
    /\ Scored
    /\ Get(probe).input.breaths = Some(200 * Scale)
    /\ Get(probe).input.blink_rate = 600 * Scale
    /\ Get(probe).input.motion_mean = 1000 * Scale
    /\ Get(probe).stress_raw = 80 * Scale
    /\ Get(probe).stress = 80 * Scale

\* ====================================================== ticks keep coming
\* The loop runs for as long as the camera delivers frames.  Each pass
\* takes the steady input, on which the clock advances (LiveFrame), or, up
\* to MaxFree times while the windows fill up, the same input with the
\* clock standing still (StallFrame).  The run is followed up to LiveLast
\* frames; the last LiveMargin of them are enough for a second to pass.
LiveMargin == 1 * TicksPerSecond + 1
StallFirst == Capacity - 2
StallLast == StallFirst + MaxFree
LiveLast == StallLast + 1 + 2 * LiveMargin

InitLive ==
    /\ InitEngine
    /\ steady \in {Calm, Slow}
    /\ budget = MaxFree
    /\ probe = None

LiveFrame ==
    /\ frame_idx < LiveLast
    /\ OnFrame(steady)
    /\ UNCHANGED <<steady, budget, probe>>

StallFrame ==
    /\ budget > 0
    /\ frame_idx \in StallFirst .. StallLast
    /\ OnFrame([steady EXCEPT !.dt = 0])
    /\ budget' = budget - 1
    /\ UNCHANGED <<steady, probe>>

NextLive ==
    \/ LiveFrame
    \/ StallFrame
    \/ EndOfStream

\* what tells a LiveFrame step from the other steps: the loop is running, a
\* frame is counted and no stall is used up
LiveTurn ==
    /\ running
    /\ frame_idx < LiveLast
    /\ frame_idx' = frame_idx + 1
    /\ budget' = budget

\* frames keep being processed and the clock keeps advancing: the pass with
\* the advancing clock is taken again and again while the loop runs
SpecLive ==
    InitLive /\ [][NextLive]_vars /\ WF_<<frame_idx, budget>>(LiveTurn)

\* 4 x SAMPLING_RATE samples are buffered
Warm == Len(timestamp_buffer) >= 4 * SAMPLING_RATE

\* C20: the timestamp buffer never gets shorter, so once 4 x SAMPLING_RATE
\* samples are buffered they stay buffered; from then on a frame ticks
\* exactly when more than 1.0 second has passed since the previous tick;
\* and while frames keep being processed and the clock keeps advancing,
\* every frame without a snapshot is followed by one with a snapshot
C20_TicksKeepComing ==
    /\ [][Len(timestamp_buffer') >= Len(timestamp_buffer)]_vars
    /\ [][Warm => Warm']_vars
    /\ [](\A i \in DOMAIN hist :
            hist[i].n_ts >= 4 * SAMPLING_RATE =>
                (hist[i].tick <=> hist[i].elapsed > 1 * TicksPerSecond))
    /\ (running /\ Warm /\ IsNone(out) /\ frame_idx <= LiveLast - LiveMargin)
           ~> (~running \/ ~IsNone(out))

C20_Witness ==
    /\ ~IsNone(out)
    /\ running
    /\ budget = 0
    /\ Len(timestamp_buffer) = Capacity
    /\ frame_idx > Capacity
    /\ Len(tick_times) > SAMPLING_RATE
    /\ \E i \in DOMAIN hist :
         /\ hist[i].n_ts = Capacity
         /\ ~hist[i].tick
         /\ hist[i].t = hist[i - 1].t

=============================================================================
